---- MODULE Spec2Model ----
(***************************************************************************)
(* qijoy/utools, seal-generator: a model of SealGenerator.ts.              *)
(*                                                                         *)
(* Spec       the constructor's option resolution and the generate()       *)
(*            pipeline (draw calls on the 2D context, the optional aging   *)
(*            pass, PNG encoding, the file write), run up to MaxRuns times *)
(*            on one generator.  The raster is kept symbolically as the    *)
(*            list of context calls: rasterisation belongs to the canvas   *)
(*            library.                                                     *)
(* SpecAging  addAgingEffect on a sample of pixels of the image buffer,    *)
(*            with every Math.random() call a choice from Rand.            *)
(*                                                                         *)
(* JavaScript numbers are modelled as exact rationals plus NaN and the     *)
(* infinities; angles in radians are kept as rational multiples of pi.     *)
(***************************************************************************)
EXTENDS Integers, Sequences, FiniteSets, TLC

VARIABLES
    opts,       \* the SealOptions object passed to the constructor
    options,    \* this.options, as resolved by the constructor
    pc,         \* position inside generate() / addAgingEffect()
    ctx,        \* the canvas 2D context: drawing state, save stack, call log
    layout,     \* drawCompanyName's locals: chars, angleStep, startAngle, i
    glyphs,     \* per drawn company glyph: its angle, x, y and rotation
    trace,      \* the stages generate() has run, in order
    rngUsed,    \* Math.random() has been called during this generate()
    buffer,     \* result of canvas.toBuffer
    writes,     \* number of writeFile calls of this generate()
    run,        \* 1-based number of the current generate() call
    prev,       \* buffer the previous generate() call encoded, and its rngUsed
    ag          \* addAgingEffect's locals (size, strength, data, fadeAreas, i)

vars == <<opts, options, pc, ctx, layout, glyphs, trace, rngUsed,
          buffer, writes, run, prev, ag>>

----------------------------------------------------------------------------
(* Bounds of the model *)

MaxCompanyLen == 3
MaxExplicit == 2
MaxRuns == 2

----------------------------------------------------------------------------
(* JavaScript numbers *)

RECURSIVE Gcd(_, _)
Gcd(a, b) == IF b = 0 THEN a ELSE Gcd(b, a % b)

Abs(n) == IF n < 0 THEN -n ELSE n

\* the element of a one-element set: binds a value once it is computed
Only(S) == CHOOSE x \in S : TRUE

Sign(n) == IF n < 0 THEN -1 ELSE IF n > 0 THEN 1 ELSE 0

NaN == [k |-> "nan", n |-> 0, d |-> 1]

Inf(s) == [k |-> "inf", n |-> s, d |-> 1]

\* the rational n/d in lowest terms, d > 0
Fin(n, d) ==
    LET g == Gcd(Abs(n), Abs(d))
        s == IF d < 0 THEN -1 ELSE 1
    IN  [k |-> "fin", n |-> s * (n \div g), d |-> s * (d \div g)]

Num(n) == Fin(n, 1)

Zero == Num(0)

One == Num(1)

IsFinite(a) == a.k = "fin"

\* a + b
JsAdd(a, b) ==
    IF a.k = "nan" \/ b.k = "nan" THEN NaN
    ELSE IF a.k = "inf" /\ b.k = "inf" THEN (IF a.n = b.n THEN a ELSE NaN)
    ELSE IF a.k = "inf" THEN a
    ELSE IF b.k = "inf" THEN b
    ELSE Fin(a.n * b.d + b.n * a.d, a.d * b.d)

JsNeg(a) == IF a.k = "nan" THEN NaN ELSE [a EXCEPT !.n = -a.n]

\* a - b
JsSub(a, b) == JsAdd(a, JsNeg(b))

\* a * b
JsMul(a, b) ==
    IF a.k = "nan" \/ b.k = "nan" THEN NaN
    ELSE IF a.k = "inf" \/ b.k = "inf"
         THEN (IF a.n = 0 \/ b.n = 0 THEN NaN ELSE Inf(Sign(a.n) * Sign(b.n)))
    ELSE Fin(a.n * b.n, a.d * b.d)

\* a / b
JsDiv(a, b) ==
    IF a.k = "nan" \/ b.k = "nan" THEN NaN
    ELSE IF a.k = "inf" THEN (IF b.k = "inf" THEN NaN
                              ELSE Inf(a.n * (IF b.n < 0 THEN -1 ELSE 1)))
    ELSE IF b.k = "inf" THEN Zero
    ELSE IF b.n = 0 THEN (IF a.n = 0 THEN NaN ELSE Inf(Sign(a.n)))
    ELSE Fin(a.n * b.d, a.d * b.n)

\* a < b (false when either is NaN)
JsLt(a, b) ==
    IF a.k = "nan" \/ b.k = "nan" THEN FALSE
    ELSE IF a.k = "inf" THEN a.n < 0 /\ ~(b.k = "inf" /\ b.n < 0)
    ELSE IF b.k = "inf" THEN b.n > 0
    ELSE a.n * b.d < b.n * a.d

\* a > b
JsGt(a, b) == JsLt(b, a)

\* Math.PI: radians are kept as rational multiples of pi, so pi is the unit
Pi == Num(1)

\* Math.cos / Math.sin of an angle given as a coefficient of pi, times r:
\* a symbolic coordinate, NaN when the angle or the radius is not finite
Polar(r, fn, a) ==
    IF IsFinite(r) /\ IsFinite(a)
    THEN [k |-> "fin", r |-> r, fn |-> fn, a |-> a]
    ELSE [k |-> "nan", r |-> Zero, fn |-> fn, a |-> Zero]

----------------------------------------------------------------------------
(* SealOptions and the constructor *)

\* an option the caller supplied / left out (undefined); v keeps the field's type
Given(x) == [set |-> TRUE, v |-> x]

Omitted(x) == [set |-> FALSE, v |-> x]

\* the first n glyphs of a company name
Name(n) == SubSeq(<<"A", "B", "C", "D", "E", "F">>, 1, n)

FieldNames ==
    {"size", "color", "company", "title", "starSize", "companyFontSize",
     "titleFontSize", "rotation", "opacity", "borderWidth", "borderStyle",
     "companyRadiusRatio", "titleRadiusRatio", "starBottomAngle",
     "showInnerCircle", "aging", "agingStrength"}

\* values a caller may supply, each within the documented range of its field
SizeValues == {Num(452)}
ColorValues == {"#d20000"}
CompanyValues == {Name(n) : n \in 0..MaxCompanyLen}
TitleValues == {"Seal"}
StarSizeValues == {Num(150)}
CompanyFontSizeValues == {Num(60)}
TitleFontSizeValues == {Num(28)}
RotationValues == {Num(0), Num(45)}
OpacityValues == {Num(0), Fin(1, 2), Num(1)}
BorderWidthValues == {Num(7)}
BorderStyleValues == {"solid", "dashed"}
CompanyRadiusRatioValues == {Fin(4, 5)}
TitleRadiusRatioValues == {Fin(3, 10)}
StarBottomAngleValues == {Num(90)}
AgingStrengthValues == {Num(0), Num(1)}

Choice(f, E, values, blank) ==
    IF f \in E THEN {Given(x) : x \in values} ELSE {Omitted(blank)}

\* option objects that supply exactly the fields in E
OptionsWith(E) ==
        [size : Choice("size", E, SizeValues, Zero),
         color : Choice("color", E, ColorValues, ""),
         company : Choice("company", E, CompanyValues, <<>>),
         title : Choice("title", E, TitleValues, ""),
         starSize : Choice("starSize", E, StarSizeValues, Zero),
         companyFontSize : Choice("companyFontSize", E, CompanyFontSizeValues, Zero),
         titleFontSize : Choice("titleFontSize", E, TitleFontSizeValues, Zero),
         rotation : Choice("rotation", E, RotationValues, Zero),
         opacity : Choice("opacity", E, OpacityValues, Zero),
         borderWidth : Choice("borderWidth", E, BorderWidthValues, Zero),
         borderStyle : Choice("borderStyle", E, BorderStyleValues, ""),
         companyRadiusRatio :
             Choice("companyRadiusRatio", E, CompanyRadiusRatioValues, Zero),
         titleRadiusRatio :
             Choice("titleRadiusRatio", E, TitleRadiusRatioValues, Zero),
         starBottomAngle : Choice("starBottomAngle", E, StarBottomAngleValues, Zero),
         showInnerCircle : Choice("showInnerCircle", E, BOOLEAN, FALSE),
         aging : Choice("aging", E, BOOLEAN, FALSE),
         agingStrength : Choice("agingStrength", E, AgingStrengthValues, Zero)]

\* option objects with at most MaxExplicit fields supplied
OptionSets ==
    UNION {OptionsWith(E) :
               E \in {S \in SUBSET FieldNames : Cardinality(S) <= MaxExplicit}}

\* o || def for a number: undefined, 0 and NaN are falsy
OrNumber(o, def) == IF o.set /\ o.v.k # "nan" /\ o.v.n # 0 THEN o.v ELSE def

\* o || def for a string: undefined and "" are falsy
OrString(o, def) == IF o.set /\ o.v # "" THEN o.v ELSE def

\* o || def for the company name, a string kept as its sequence of characters
OrChars(o, def) == IF o.set /\ o.v # <<>> THEN o.v ELSE def

\* o !== undefined ? o : def
DefinedOr(o, def) == IF o.set THEN o.v ELSE def

\* "测试公司"
DefaultCompany == <<"ce", "shi", "gong", "si">>

\* this.options as the constructor assigns it
Resolve(o) ==
    [size |-> OrNumber(o.size, Num(400)),
     color |-> OrString(o.color, "#FF0000"),
     company |-> OrChars(o.company, DefaultCompany),
     title |-> OrString(o.title, " "),
     starSize |-> OrNumber(o.starSize, Num(100)),
     companyFontSize |-> OrNumber(o.companyFontSize, Num(24)),
     titleFontSize |-> OrNumber(o.titleFontSize, Num(20)),
     rotation |-> OrNumber(o.rotation, Num(0)),
     opacity |-> OrNumber(o.opacity, Num(1)),
     borderWidth |-> OrNumber(o.borderWidth, Num(6)),
     borderStyle |-> OrString(o.borderStyle, "solid"),
     companyRadiusRatio |-> OrNumber(o.companyRadiusRatio, Fin(3, 4)),
     titleRadiusRatio |-> OrNumber(o.titleRadiusRatio, Fin(33, 100)),
     starBottomAngle |-> OrNumber(o.starBottomAngle, Num(108)),
     showInnerCircle |-> DefinedOr(o.showInnerCircle, TRUE),
     aging |-> DefinedOr(o.aging, TRUE),
     agingStrength |-> DefinedOr(o.agingStrength, Fin(13, 100))]

----------------------------------------------------------------------------
(* The canvas 2D context: drawing state, save/restore stack, log of calls *)

Str(s) == [k |-> "str", s |-> s]

Font(weight, px) == [k |-> "font", weight |-> weight, px |-> px, family |-> "SimHei"]

Call(op, params) == [op |-> op, params |-> params]

\* canvas.getContext("2d") on a fresh canvas
NewContext ==
    [cur |-> [transform |-> <<>>, globalAlpha |-> One,
              font |-> Font("", Num(10)), fillStyle |-> Str("#000000"),
              strokeStyle |-> Str("#000000"), lineWidth |-> One,
              shadowColor |-> Str("rgba(0, 0, 0, 0)"), shadowBlur |-> Zero,
              shadowOffsetX |-> Zero, shadowOffsetY |-> Zero,
              textAlign |-> Str("start"), textBaseline |-> Str("alphabetic")],
     stack |-> <<>>,
     calls |-> <<>>]

Log(c, op, args) == [c EXCEPT !.calls = Append(@, Call(op, args))]

Save(c) == Log([c EXCEPT !.stack = Append(@, c.cur)], "save", <<>>)

Restore(c) ==
    IF c.stack = <<>> THEN Log(c, "restore", <<>>)
    ELSE Log([c EXCEPT !.cur = c.stack[Len(c.stack)],
                       !.stack = SubSeq(@, 1, Len(@) - 1)], "restore", <<>>)

\* translate and rotate return without effect when an argument is not finite
Translate(c, x, y) ==
    Log(IF x.k = "fin" /\ y.k = "fin"
        THEN [c EXCEPT !.cur.transform = Append(@, Call("translate", <<x, y>>))]
        ELSE c, "translate", <<x, y>>)

Rotate(c, a) ==
    Log(IF a.k = "fin"
        THEN [c EXCEPT !.cur.transform = Append(@, Call("rotate", <<a>>))]
        ELSE c, "rotate", <<a>>)

SetProp(c, p, v) == Log([c EXCEPT !.cur[p] = v], p, <<v>>)

ClearRect(c, x, y, w, h) == Log(c, "clearRect", <<x, y, w, h>>)

BeginPath(c) == Log(c, "beginPath", <<>>)

Arc(c, x, y, r, a0, a1) == Log(c, "arc", <<x, y, r, a0, a1>>)

Stroke(c) == Log(c, "stroke", <<>>)

FillText(c, text, x, y) == Log(c, "fillText", <<Str(text), x, y>>)

StrokeText(c, text, x, y) == Log(c, "strokeText", <<Str(text), x, y>>)

GetImageData(c, x, y, w, h) == Log(c, "getImageData", <<x, y, w, h>>)

PutImageData(c, img, x, y) == Log(c, "putImageData", <<img, x, y>>)

\* (deg * Math.PI) / 180
DegToRad(deg) == JsDiv(JsMul(deg, Pi), Num(180))

\* size / 2 - 20
UsableRadius(size) == JsSub(JsDiv(size, Num(2)), Num(20))

----------------------------------------------------------------------------
(* The draw stages, as functions of the context *)

\* drawBorder, dashed branch: for (angle = 0; angle < 360; angle += 10), each
\* iteration a beginPath, an arc of 5 degrees and a stroke
DashCount == Cardinality({a \in 0..359 : a % 10 = 0})

DashedArcs(c, radius) ==
    [c EXCEPT !.calls = @ \o
        [j \in 1..(3 * DashCount) |->
            LET angle == 10 * ((j - 1) \div 3)
            IN  IF j % 3 = 1 THEN Call("beginPath", <<>>)
                ELSE IF j % 3 = 2
                THEN Call("arc", <<Zero, Zero, radius, DegToRad(Num(angle)),
                                   DegToRad(Num(angle + 5))>>)
                ELSE Call("stroke", <<>>)]]

\* drawBorder, the outer ring
OuterRing(c, radius, color, width, style) ==
    LET c1 == SetProp(SetProp(SetProp(SetProp(BeginPath(Save(c)),
                  "strokeStyle", Str(color)), "lineWidth", width),
                  "shadowColor", Str("rgba(0, 0, 0, 0.08)")), "shadowBlur", Num(2))
        c2 == IF style = "solid"
              THEN Stroke(Arc(c1, Zero, Zero, radius, Zero, JsMul(Pi, Num(2))))
              ELSE DashedArcs(c1, radius)
    IN  Restore(c2)

\* Math.max(a, b)
JsMax(a, b) == IF a.k = "nan" \/ b.k = "nan" THEN NaN ELSE IF JsLt(a, b) THEN b ELSE a

\* Math.min(a, b)
JsMin(a, b) == IF a.k = "nan" \/ b.k = "nan" THEN NaN ELSE IF JsLt(b, a) THEN b ELSE a

\* drawBorder, the inner ring
InnerRing(c, radius, color, width) ==
    LET c1 == SetProp(SetProp(SetProp(BeginPath(Save(c)),
                  "strokeStyle", Str(color)),
                  "lineWidth", JsMax(Num(2), JsMul(width, Fin(1, 2)))),
                  "shadowBlur", Zero)
    IN  Restore(Stroke(Arc(c1, Zero, Zero, JsSub(radius, Num(12)), Zero,
                           JsMul(Pi, Num(2)))))

\* drawStar
Star(c, x, y, size, color) ==
    LET c1 == SetProp(SetProp(SetProp(Save(c),
                  "font", Font("bold", size)), "textAlign", Str("center")),
                  "textBaseline", Str("middle"))
        c2 == SetProp(SetProp(c1, "shadowColor", Str("rgba(0, 0, 0, 0.12)")),
                      "shadowBlur", Num(2))
        c3 == FillText(SetProp(c2, "fillStyle", Str(color)), "star", x, y)
        c4 == SetProp(SetProp(SetProp(c3, "lineWidth", Num(2)),
                  "strokeStyle", Str("#a00000")), "shadowBlur", Zero)
    IN  Restore(StrokeText(c4, "star", x, y))

\* drawCompanyName before its loop: the arc parameters
TotalAngle == Num(240)

\* faulty variant, for comparison: the step divides by the number of characters
AngleStep_ByLength(chars) == JsDiv(TotalAngle, Num(Len(chars)))

AngleStep(chars) == JsDiv(TotalAngle, Num(Len(chars) - 1))

StartAngle == JsSub(Num(-90), JsDiv(TotalAngle, Num(2)))

\* drawCompanyName before its loop: the text style
CompanyStyle(c, fontSize, color) ==
    SetProp(SetProp(SetProp(SetProp(c,
        "font", Font("bold", fontSize)), "fillStyle", Str(color)),
        "textAlign", Str("center")), "textBaseline", Str("middle"))

\* drawCompanyName, loop body: where glyph i goes
GlyphPlace(i, startAngle, angleStep, radius, radiusRatio) ==
    LET deg == JsAdd(startAngle, JsMul(Num(i), angleStep))
        angle == DegToRad(deg)
    IN  [i |-> i, deg |-> deg, angle |-> angle,
         x |-> Polar(JsMul(radius, radiusRatio), "cos", angle),
         y |-> Polar(JsMul(radius, radiusRatio), "sin", angle),
         rot |-> JsAdd(angle, JsDiv(Pi, Num(2)))]

\* drawCompanyName, loop body: the calls for one glyph up to fillText
GlyphDraw(c, char, g, color) ==
    LET c1 == Rotate(Translate(Save(c), g.x, g.y), g.rot)
        c2 == SetProp(SetProp(SetProp(SetProp(c1,
                  "shadowColor", Str("rgba(0, 0, 0, 0.10)")), "shadowBlur", Num(2)),
                  "shadowOffsetX", One), "shadowOffsetY", One)
        c3 == SetProp(SetProp(c2, "lineWidth", Fin(12, 10)), "strokeStyle", Str(color))
    IN  FillText(StrokeText(c3, char, Zero, Zero), char, Zero, Zero)

\* faulty variant, for comparison: the glyph's context state is not restored
Glyph_NoRestore(c, char, g, color) == GlyphDraw(c, char, g, color)

\* drawCompanyName, loop body: the calls for one glyph
Glyph(c, char, g, color) == Restore(GlyphDraw(c, char, g, color))

\* drawTitle
Title(c, text, radius, fontSize, color, radiusRatio) ==
    LET c1 == SetProp(SetProp(SetProp(SetProp(c,
                  "font", Font("", fontSize)), "fillStyle", Str(color)),
                  "textAlign", Str("center")), "textBaseline", Str("middle"))
        c2 == SetProp(SetProp(SetProp(SetProp(c1,
                  "shadowColor", Str("rgba(0, 0, 0, 0.1)")), "shadowBlur", Num(2)),
                  "shadowOffsetX", One), "shadowOffsetY", One)
    IN  FillText(c2, text, Zero, JsMul(radius, radiusRatio))

----------------------------------------------------------------------------
(* Math.random() and the buffers *)

\* the values a Math.random() call returns in the model: 0 and 0.75
Rand == {Zero, Fin(3, 4)}

NoBuffer == [set |-> FALSE, png |-> <<>>]

\* canvas.toBuffer("image/png"): the encoding of what the calls have drawn
ToBuffer(c) == [set |-> TRUE, png |-> c.calls]

LayoutIdle == [chars |-> <<>>, angleStep |-> Zero, startAngle |-> Zero, i |-> 0]

AgIdle ==
    [size |-> Zero, strength |-> Zero, data |-> <<>>, before |-> <<>>,
     fadeAreas |-> <<>>, i |-> 0, hist |-> <<>>]

----------------------------------------------------------------------------
(* generate(): one action per stage *)

Init ==
    /\ opts \in OptionSets
    /\ options = Resolve(opts)
    /\ pc = "idle"
    /\ ctx = NewContext
    /\ layout = LayoutIdle
    /\ glyphs = <<>>
    /\ trace = <<>>
    /\ rngUsed = FALSE
    /\ buffer = NoBuffer
    /\ writes = 0
    /\ run = 0
    /\ prev = [buffer |-> NoBuffer, rngUsed |-> FALSE]
    /\ ag = AgIdle

\* generate(outputPath) is called: createCanvas, getContext
Generate ==
    /\ pc \in {"idle", "done"}
    /\ run < MaxRuns
    /\ run' = run + 1
    /\ prev' = [buffer |-> buffer, rngUsed |-> rngUsed]
    /\ ctx' = NewContext
    /\ layout' = LayoutIdle
    /\ glyphs' = <<>>
    /\ trace' = <<>>
    /\ rngUsed' = FALSE
    /\ buffer' = NoBuffer
    /\ writes' = 0
    /\ pc' = "clear"
    /\ UNCHANGED <<opts, options, ag>>

\* faulty variant, for comparison: the inner ring is drawn whatever showInnerCircle says
InnerCircleEnabled_Always(o) == TRUE

\* if (this.options.showInnerCircle)
InnerCircleEnabled(o) == o.showInnerCircle

\* faulty variant, for comparison: the aging pass runs whatever aging says
AgingEnabled_Always(o) == TRUE

\* if (this.options.aging)
AgingEnabled(o) == o.aging

\* what every draw stage leaves alone
StageFrame == UNCHANGED <<opts, options, rngUsed, buffer, writes, run, prev, ag>>

ClearCanvas ==
    /\ pc = "clear"
    /\ ctx' = ClearRect(ctx, Zero, Zero, options.size, options.size)
    /\ trace' = Append(trace, "clear")
    /\ pc' = "alpha"
    /\ UNCHANGED <<layout, glyphs>>
    /\ StageFrame

SetGlobalAlpha ==
    /\ pc = "alpha"
    /\ ctx' = SetProp(ctx, "globalAlpha", options.opacity)
    /\ trace' = Append(trace, "alpha")
    /\ pc' = "transform"
    /\ UNCHANGED <<layout, glyphs>>
    /\ StageFrame

TranslateRotate ==
    /\ pc = "transform"
    /\ ctx' = Rotate(Translate(ctx, JsDiv(options.size, Num(2)),
                               JsDiv(options.size, Num(2))),
                     DegToRad(options.rotation))
    /\ trace' = Append(trace, "transform")
    /\ pc' = "border"
    /\ UNCHANGED <<layout, glyphs>>
    /\ StageFrame

DrawOuterBorder ==
    /\ pc = "border"
    /\ ctx' = OuterRing(ctx, UsableRadius(options.size), options.color,
                        options.borderWidth, options.borderStyle)
    /\ trace' = Append(trace, "border")
    /\ pc' = "inner"
    /\ UNCHANGED <<layout, glyphs>>
    /\ StageFrame

DrawInnerCircle ==
    /\ pc = "inner"
    /\ InnerCircleEnabled(options)
    /\ ctx' = InnerRing(ctx, UsableRadius(options.size), options.color,
                        options.borderWidth)
    /\ trace' = Append(trace, "inner")
    /\ pc' = "star"
    /\ UNCHANGED <<layout, glyphs>>
    /\ StageFrame

SkipInnerCircle ==
    /\ pc = "inner"
    /\ ~InnerCircleEnabled(options)
    /\ pc' = "star"
    /\ UNCHANGED <<ctx, trace, layout, glyphs>>
    /\ StageFrame

DrawStar ==
    /\ pc = "star"
    /\ ctx' = Star(ctx, Zero, Zero, options.starSize, options.color)
    /\ trace' = Append(trace, "star")
    /\ pc' = "company"
    /\ UNCHANGED <<layout, glyphs>>
    /\ StageFrame

\* drawCompanyName up to its forEach
DrawCompanyName ==
    /\ pc = "company"
    /\ layout' = [chars |-> options.company,
                  angleStep |-> AngleStep(options.company),
                  startAngle |-> StartAngle, i |-> 0]
    /\ ctx' = CompanyStyle(ctx, options.companyFontSize, options.color)
    /\ trace' = Append(trace, "company")
    /\ pc' = IF Len(options.company) = 0 THEN "title" ELSE "glyph"
    /\ UNCHANGED glyphs
    /\ StageFrame

\* one iteration of drawCompanyName's forEach
DrawGlyph ==
    /\ pc = "glyph"
    /\ layout.i < Len(layout.chars)
    /\ LET g == GlyphPlace(layout.i, layout.startAngle, layout.angleStep,
                           UsableRadius(options.size), options.companyRadiusRatio)
       IN  /\ ctx' = Glyph(ctx, layout.chars[layout.i + 1], g, options.color)
           /\ glyphs' = Append(glyphs, g)
    /\ layout' = [layout EXCEPT !.i = @ + 1]
    /\ trace' = Append(trace, "glyph")
    /\ pc' = IF layout.i + 1 = Len(layout.chars) THEN "title" ELSE "glyph"
    /\ StageFrame

DrawTitle ==
    /\ pc = "title"
    /\ ctx' = Title(ctx, options.title, UsableRadius(options.size),
                    options.titleFontSize, options.color, options.titleRadiusRatio)
    /\ trace' = Append(trace, "title")
    /\ pc' = IF AgingEnabled(options) THEN "aging" ELSE "encode"
    /\ UNCHANGED <<layout, glyphs>>
    /\ StageFrame

\* if (this.options.aging) this.addAgingEffect(...): the pass reads the image,
\* draws from Math.random() (the fade areas at least) and writes the image
\* back; its outcome is one value of Rand here, its arithmetic is SpecAging's
AddAgingEffect ==
    /\ pc = "aging"
    /\ \E outcome \in Rand :
           ctx' = PutImageData(
                      GetImageData(ctx, Zero, Zero, options.size, options.size),
                      [k |-> "aged", strength |-> options.agingStrength,
                       outcome |-> outcome],
                      Zero, Zero)
    /\ rngUsed' = TRUE
    /\ trace' = Append(trace, "aging")
    /\ pc' = "encode"
    /\ UNCHANGED <<opts, options, layout, glyphs, buffer, writes,
                   run, prev, ag>>

Encode ==
    /\ pc = "encode"
    /\ buffer' = ToBuffer(ctx)
    /\ trace' = Append(trace, "encode")
    /\ pc' = "write"
    /\ UNCHANGED <<opts, options, ctx, layout, glyphs, rngUsed,
                   writes, run, prev, ag>>

\* await fs.promises.writeFile(outputPath, buffer); return outputPath
WriteFile ==
    /\ pc = "write"
    /\ writes' = writes + 1
    /\ trace' = Append(trace, "write")
    /\ pc' = "done"
    /\ UNCHANGED <<opts, options, ctx, layout, glyphs, rngUsed, buffer, run,
                   prev, ag>>

Next ==
    \/ Generate
    \/ ClearCanvas
    \/ SetGlobalAlpha
    \/ TranslateRotate
    \/ DrawOuterBorder
    \/ DrawInnerCircle
    \/ SkipInnerCircle
    \/ DrawStar
    \/ DrawCompanyName
    \/ DrawGlyph
    \/ DrawTitle
    \/ AddAgingEffect
    \/ Encode
    \/ WriteFile

Spec == Init /\ [][Next]_vars

----------------------------------------------------------------------------
(* addAgingEffect on a sample of the image's pixels *)

\* a store into the Uint8ClampedArray: clamp to [0, 255], round half to even
ToUint8Clamped(v) ==
    IF v.k = "nan" THEN 0
    ELSE IF v.k = "inf" THEN (IF v.n < 0 THEN 0 ELSE 255)
    ELSE IF v.n <= 0 THEN 0
    ELSE IF v.n >= 255 * v.d THEN 255
    ELSE LET q == v.n \div v.d
             r == v.n % v.d
         IN  IF 2 * r < v.d THEN q
             ELSE IF 2 * r > v.d THEN q + 1
             ELSE IF q % 2 = 0 THEN q ELSE q + 1

\* one element of fadeAreas, from its five Math.random() values
FadeArea(cx, cy, radius, r) ==
    [x |-> JsAdd(cx, JsMul(JsMul(JsSub(r[1], Fin(1, 2)), radius), Fin(7, 10))),
     y |-> JsAdd(cy, JsMul(JsMul(JsSub(r[2], Fin(1, 2)), radius), Fin(7, 10))),
     rx |-> JsAdd(Num(30), JsMul(r[3], Num(30))),
     ry |-> JsAdd(Num(18), JsMul(r[4], Num(18))),
     fade |-> JsAdd(Fin(1, 2), JsMul(r[5], Fin(2, 10)))]

\* dx * dx + dy * dy < 1 for the pixel (x, y); a sum below 1 has both squares
\* below 1, which is tested first to keep the products small
InFadeArea(x, y, area) ==
    LET dx == JsDiv(JsSub(Num(x), area.x), area.rx)
        dy == JsDiv(JsSub(Num(y), area.y), area.ry)
    IN  /\ JsLt(JsMul(dx, dx), One)
        /\ JsLt(JsMul(dy, dy), One)
        /\ JsLt(JsAdd(JsMul(dx, dx), JsMul(dy, dy)), One)

\* (x - cx) ** 2 + (y - cy) ** 2, the square of dist
DistSquared(x, y, cx, cy) ==
    JsAdd(JsMul(JsSub(Num(x), cx), JsSub(Num(x), cx)),
          JsMul(JsSub(Num(y), cy), JsSub(Num(y), cy)))

\* dist > radius - 8 && dist < radius + 8, on the squares
InErosionBand(d2, radius) ==
    LET lo == JsSub(radius, Num(8))
        hi == JsAdd(radius, Num(8))
    IN  /\ (JsLt(lo, Zero) \/ JsGt(d2, JsMul(lo, lo)))
        /\ JsGt(hi, Zero)
        /\ JsLt(d2, JsMul(hi, hi))

\* Math.max(0, Math.min(255, v))
Clamp255(v) == JsMax(Zero, JsMin(Num(255), v))

\* step 4 of the loop body for one fade area; px is <<R, G, B, A>>
FadeBy(px, x, y, area, r) ==
    IF InFadeArea(x, y, area)
    THEN <<ToUint8Clamped(JsMul(Num(px[1]), area.fade)),
           ToUint8Clamped(JsMul(Num(px[2]), area.fade)),
           ToUint8Clamped(JsMul(Num(px[3]), area.fade)),
           ToUint8Clamped(JsMul(Num(px[4]),
                                JsAdd(Fin(92, 100), JsMul(r, Fin(6, 100)))))>>
    ELSE px

\* faulty variant, for comparison: the darkening test is an if of its own, not an else-if
Erosion_Independent(inBand, strength, r2, r3) ==
    [inBand |-> inBand,
     erased |-> inBand /\ JsLt(r2, JsMul(Fin(13, 100), strength)),
     darkChecked |-> inBand,
     darkened |-> inBand /\ JsLt(r3, JsMul(Fin(18, 100), strength))]

\* step 3 of the loop body: which of the two edge-erosion branches runs.
\* r2 is the first Math.random() of the step, r3 the second one, which is the
\* erasure factor when the first branch runs and the darkening test otherwise
Erosion(inBand, strength, r2, r3) ==
    LET erased == inBand /\ JsLt(r2, JsMul(Fin(13, 100), strength))
        darkChecked == inBand /\ ~erased
    IN  [inBand |-> inBand, erased |-> erased, darkChecked |-> darkChecked,
         darkened |-> darkChecked /\ JsLt(r3, JsMul(Fin(18, 100), strength))]

\* step 1 of the loop body, the overall fade; px is <<R, G, B, A>>
OverallFade(px, strength) ==
    <<ToUint8Clamped(JsMul(Num(px[1]),
          JsSub(Fin(93, 100), JsMul(strength, Fin(2, 10))))),
      ToUint8Clamped(JsMul(Num(px[2]),
          JsSub(Fin(93, 100), JsMul(strength, Fin(1, 10))))),
      ToUint8Clamped(JsMul(Num(px[3]),
          JsSub(Fin(93, 100), JsMul(strength, Fin(1, 10))))),
      px[4]>>

\* (Math.random() - 0.5) * 255 * strength * 0.7
Noise(strength, r) ==
    JsMul(JsMul(JsMul(JsSub(r, Fin(1, 2)), Num(255)), strength), Fin(7, 10))

\* step 2 of the loop body, the grain
Grain(px, noise) ==
    <<ToUint8Clamped(Clamp255(JsAdd(Num(px[1]), noise))),
      ToUint8Clamped(Clamp255(JsAdd(Num(px[2]), JsMul(noise, Fin(1, 2))))),
      ToUint8Clamped(Clamp255(JsAdd(Num(px[3]), JsMul(noise, Fin(1, 2))))),
      px[4]>>

\* step 3 of the loop body, the edge erosion decided by e
Erode(px, e, r3) ==
    IF e.erased
    THEN <<px[1], px[2], px[3],
           ToUint8Clamped(JsMul(Num(px[4]),
                                JsAdd(Fin(1, 2), JsMul(r3, Fin(3, 10)))))>>
    ELSE IF e.darkened
    THEN <<ToUint8Clamped(JsMul(Num(px[1]), Fin(7, 10))),
           ToUint8Clamped(JsMul(Num(px[2]), Fin(7, 10))),
           ToUint8Clamped(JsMul(Num(px[3]), Fin(7, 10))),
           px[4]>>
    ELSE px

\* step 5 of the loop body, the alpha jitter
AlphaJitter(px, r) ==
    <<px[1], px[2], px[3],
      ToUint8Clamped(Clamp255(JsMul(Num(px[4]),
          JsAdd(Fin(97, 100), JsMul(r, Fin(6, 100))))))>>

\* the loop body for one pixel with alpha > 0, given the erosion decision e;
\* r is the pixel's Math.random() values in call order: noise, erosion (two),
\* one per fade area, alpha jitter
AgePixelFn(px, x, y, e, strength, areas, r) ==
    Only({AlphaJitter(p5, r[6]) :
          p5 \in {FadeBy(p4, x, y, areas[2], r[5]) :
          p4 \in {FadeBy(p3, x, y, areas[1], r[4]) :
          p3 \in {Erode(p2, e, r[3]) :
          p2 \in {Grain(p1, n) :
          p1 \in {OverallFade(px, strength)}, n \in {Noise(strength, r[1])}}}}}})

\* whether the pixel (x, y) of a size x size image is in the erosion band
InBandAt(x, y, size) ==
    InErosionBand(DistSquared(x, y, JsDiv(size, Num(2)), JsDiv(size, Num(2))),
                  UsableRadius(size))

\* the generators addAgingEffect is followed on: default options, with the
\* aging strength supplied or not
AgingOptionSets == OptionsWith({}) \cup OptionsWith({"agingStrength"})

\* the pixels followed through the filter, as (x, y) in the default 400 x 400
\* image: inside the erosion band, on its outer edge, and where a fade area
\* can be centred
SampleCoords == {<<200, 20>>, <<200, 12>>, <<137, 137>>}

\* RGBA values getImageData can return: transparent, opaque, translucent
PixelValues == {<<0, 0, 0, 0>>, <<255, 0, 0, 255>>, <<210, 40, 40, 128>>}

\* pixel number i / 4 of the pixel at (x, y)
PixelIndex(x, y, size) == y * size + x

\* the image samples: sequences of pixels in buffer order
Samples(size) ==
    {<<[p |-> PixelIndex(xy[1], xy[2], size), c |-> v]>> :
        xy \in SampleCoords, v \in PixelValues}

NoErosion ==
    [inBand |-> FALSE, erased |-> FALSE, darkChecked |-> FALSE, darkened |-> FALSE]

\* addAgingEffect(ctx, size, strength) has been entered and getImageData has
\* returned
InitAging ==
    /\ opts \in AgingOptionSets
    /\ options = Resolve(opts)
    /\ pc = "ag_fade"
    /\ ctx = GetImageData(NewContext, Zero, Zero, options.size, options.size)
    /\ \E d \in Samples(options.size.n) :
           ag = [size |-> options.size, strength |-> options.agingStrength,
                 data |-> d, before |-> d, fadeAreas |-> <<>>, i |-> 0,
                 hist |-> <<>>]
    /\ layout = LayoutIdle
    /\ glyphs = <<>>
    /\ trace = <<>>
    /\ rngUsed = FALSE
    /\ buffer = NoBuffer
    /\ writes = 0
    /\ run = 1
    /\ prev = [buffer |-> NoBuffer, rngUsed |-> FALSE]

AgingFrame == UNCHANGED <<opts, options, layout, glyphs, trace, buffer, writes,
                          run, prev>>

\* const fadeAreas = Array.from({ length: 2 }, ...): ten Math.random() calls
GenFadeAreas ==
    /\ pc = "ag_fade"
    /\ \E r1 \in [1..5 -> Rand], r2 \in [1..5 -> Rand] :
           LET cx == JsDiv(ag.size, Num(2))
               cy == JsDiv(ag.size, Num(2))
               radius == UsableRadius(ag.size)
           IN  ag' = [ag EXCEPT !.fadeAreas = <<FadeArea(cx, cy, radius, r1),
                                                FadeArea(cx, cy, radius, r2)>>]
    /\ rngUsed' = TRUE
    /\ pc' = "ag_loop"
    /\ UNCHANGED ctx
    /\ AgingFrame

\* faulty variant, for comparison: transparent pixels are aged too
AlphaPositive_Always(a) == a >= 0

\* if (data[i + 3] > 0)
AlphaPositive(a) == a > 0

\* a loop iteration on a pixel with data[i + 3] > 0 false
SkipPixel ==
    /\ pc = "ag_loop"
    /\ ag.i < Len(ag.data)
    /\ ~AlphaPositive(ag.data[ag.i + 1].c[4])
    /\ ag' = [ag EXCEPT !.i = @ + 1, !.hist = Append(@, NoErosion)]
    /\ UNCHANGED <<pc, ctx, rngUsed>>
    /\ AgingFrame

\* the values of a Math.random() call that is made only under a condition
DrawIf(made) == IF made THEN Rand ELSE {Zero}

\* a loop iteration on a pixel with data[i + 3] > 0.  Math.random() is called
\* for the noise, twice in the erosion band, once per fade area that holds the
\* pixel, and for the alpha jitter
AgePixel ==
    /\ pc = "ag_loop"
    /\ ag.i < Len(ag.data)
    /\ AlphaPositive(ag.data[ag.i + 1].c[4])
    /\ \E x \in {ag.data[ag.i + 1].p % ag.size.n},
          y \in {ag.data[ag.i + 1].p \div ag.size.n} :
         \E inBand \in {InBandAt(x, y, ag.size)},
            in1 \in {InFadeArea(x, y, ag.fadeAreas[1])},
            in2 \in {InFadeArea(x, y, ag.fadeAreas[2])} :
           \E r1 \in Rand, r2 \in DrawIf(inBand), r3 \in DrawIf(inBand),
              r4 \in DrawIf(in1), r5 \in DrawIf(in2), r6 \in Rand :
             \E e \in {Erosion(inBand, ag.strength, r2, r3)} :
               ag' = [ag EXCEPT !.data[ag.i + 1].c =
                                    AgePixelFn(ag.data[ag.i + 1].c, x, y, e,
                                               ag.strength, ag.fadeAreas,
                                               <<r1, r2, r3, r4, r5, r6>>),
                                !.i = @ + 1,
                                !.hist = Append(@, e)]
    /\ UNCHANGED <<pc, ctx, rngUsed>>
    /\ AgingFrame

\* ctx.putImageData(imageData, 0, 0) after the loop
PutImage ==
    /\ pc = "ag_loop"
    /\ ag.i = Len(ag.data)
    /\ ctx' = PutImageData(ctx, [k |-> "image", data |-> ag.data], Zero, Zero)
    /\ pc' = "ag_done"
    /\ UNCHANGED <<ag, rngUsed>>
    /\ AgingFrame

NextAging ==
    \/ GenFadeAreas
    \/ SkipPixel
    \/ AgePixel
    \/ PutImage

SpecAging == InitAging /\ [][NextAging]_vars

----------------------------------------------------------------------------
(* Claims about the constructor and generate(), checked under Spec *)

\* the number of characters of the company name being drawn
NameLen == Len(layout.chars)

\* C1: a one-character company name has its glyph at -90 degrees, with a
\* finite angular step and finite x, y and rotation
C1_SingleGlyphAtTop ==
    \A j \in 1..Len(glyphs) :
        NameLen = 1 =>
            /\ IsFinite(layout.angleStep)
            /\ glyphs[j].deg = Num(-90)
            /\ glyphs[j].x.k = "fin"
            /\ glyphs[j].y.k = "fin"
            /\ IsFinite(glyphs[j].rot)

C3_EmptyCompanyNoGlyph ==
    (opts.company.set /\ opts.company.v = <<>>) =>
        /\ glyphs = <<>>
        /\ \A j \in 1..Len(trace) : trace[j] # "glyph"
        /\ pc = "done" => (buffer.set /\ writes = 1)

\* C5: with aging false no Math.random() call is made, and a second generate
\* encodes the same calls into the same buffer as the first
C5_NoRandomWithoutAging ==
    ~options.aging =>
        /\ ~rngUsed
        /\ ~prev.rngUsed
        /\ (buffer.set /\ prev.buffer.set) => buffer = prev.buffer

C5_Witness == run = 2 /\ pc = "done" /\ ~options.aging /\ buffer.set /\ prev.buffer.set

\* "合同专用章"
ReadmeTitle == "HeTongZhuanYongZhang"

\* C6: an option left out resolves to the default the README documents
C6_ReadmeDefaults ==
    /\ ~opts.size.set => options.size = Num(400)
    /\ ~opts.color.set => options.color = "#FF0000"
    /\ ~opts.company.set => options.company = DefaultCompany
    /\ ~opts.title.set => options.title = ReadmeTitle
    /\ ~opts.starSize.set => options.starSize = Num(60)
    /\ ~opts.companyFontSize.set => options.companyFontSize = Num(24)
    /\ ~opts.titleFontSize.set => options.titleFontSize = Num(20)
    /\ ~opts.rotation.set => options.rotation = Num(0)
    /\ ~opts.opacity.set => options.opacity = Num(1)
    /\ ~opts.borderWidth.set => options.borderWidth = Num(6)
    /\ ~opts.borderStyle.set => options.borderStyle = "solid"

\* C7: an option supplied within its documented range is the resolved value
\* generate uses; opacity 0 gives global alpha 0, agingStrength 0 stays 0
C7_SuppliedValuesKept ==
    pc \notin {"idle", "clear", "alpha"} =>
        /\ \A f \in FieldNames : opts[f].set => options[f] = opts[f].v
        /\ opts.opacity.set => ctx.cur.globalAlpha = opts.opacity.v

\* the stages of one generate() call for the options o, in order
ExpectedTrace(o) ==
    <<"clear", "alpha", "transform", "border">>
    \o (IF o.showInnerCircle THEN <<"inner">> ELSE <<>>)
    \o <<"star", "company">>
    \o [j \in 1..Len(o.company) |-> "glyph"]
    \o <<"title">>
    \o (IF o.aging THEN <<"aging">> ELSE <<>>)
    \o <<"encode", "write">>

\* C9: the stages run in one fixed order, the inner ring only with
\* showInnerCircle, the aging pass only with aging and between the last draw
\* stage and the encoding, and the file is written last and exactly once
C9_StageOrder ==
    /\ Len(trace) <= Len(ExpectedTrace(options))
    /\ trace = SubSeq(ExpectedTrace(options), 1, Len(trace))
    /\ pc = "done" => (trace = ExpectedTrace(options) /\ writes = 1)
    /\ pc # "done" => writes = 0

C9_Witness ==
    /\ pc = "done"
    /\ options.aging
    /\ ~options.showInnerCircle
    /\ Len(options.company) = 4

\* the global transform: translate to the canvas centre, then rotate by rotation
GlobalTransform(o) ==
    <<Call("translate", <<Fin(o.size.n, 2 * o.size.d), Fin(o.size.n, 2 * o.size.d)>>),
      Call("rotate", <<Fin(o.rotation.n, 180 * o.rotation.d)>>)>>

CountOp(calls, op) == Cardinality({j \in 1..Len(calls) : calls[j].op = op})

\* C10: saves and restores are matched and none is open between two stages or
\* at the end, and every stage starts in the global transform
C10_StackDiscipline ==
    /\ ctx.stack = <<>>
    /\ CountOp(ctx.calls, "save") = CountOp(ctx.calls, "restore")
    /\ pc \in {"border", "inner", "star", "company", "glyph", "title", "aging",
               "encode", "write", "done"} =>
           ctx.cur.transform = GlobalTransform(options)

C10_Witness ==
    /\ pc = "done"
    /\ options.borderStyle = "dashed"
    /\ Len(glyphs) = 3
    /\ CountOp(ctx.calls, "save") = 6

----------------------------------------------------------------------------
(* Claims about addAgingEffect, checked under SpecAging *)

\* the pixels the loop has already visited
Visited == 1..Len(ag.hist)

\* C4: a pixel whose alpha is 0 before the filter keeps all four channels,
\* whatever the strength and the random draws, also inside the erosion band
C4_TransparentUntouched ==
    \A j \in 1..Len(ag.data) :
        ag.before[j].c[4] = 0 =>
            /\ ag.data[j].c = ag.before[j].c
            /\ j \in Visited => ag.hist[j] = NoErosion

C4_Witness ==
    /\ pc = "ag_done"
    /\ JsGt(ag.strength, Zero)
    /\ \E j \in Visited :
           /\ ag.before[j].c[4] = 0
           /\ InBandAt(ag.data[j].p % ag.size.n, ag.data[j].p \div ag.size.n, ag.size)

\* C8 as stated: on a pixel of the erosion band the darkening check is made
\* with a draw of its own whatever the erasure check decided, so that both can
\* fire on one pixel
C8_BothChecksOnBandPixel ==
    \A j \in Visited :
        (ag.before[j].c[4] > 0 /\ ag.hist[j].inBand /\ JsGt(ag.strength, Zero)) =>
            ag.hist[j].darkChecked

\* C8 amended: the darkening check is the else-branch of the erasure check. It
\* is made exactly on the band pixels the erasure did not fire on, so a pixel is
\* erased, darkened or neither, never both; outside the band neither fires
C8_ErasureExcludesDarkening ==
    \A j \in Visited :
        /\ ~(ag.hist[j].erased /\ ag.hist[j].darkened)
        /\ ag.hist[j].darkChecked <=> (ag.hist[j].inBand /\ ~ag.hist[j].erased)
        /\ ag.hist[j].darkened => ag.hist[j].darkChecked
        /\ ag.hist[j].erased => ag.hist[j].inBand

C8_Witness ==
    /\ pc = "ag_done"
    /\ \E j \in Visited : ag.hist[j].erased /\ ~ag.hist[j].darkChecked

====
